---- MODULE Spec2Model ----
(***************************************************************************)
(* The push channel of the ConnectLife cloud client                        *)
(* (src/websocket.py, class ConnectLifeWebSocket) as a state machine.      *)
(*                                                                         *)
(* The channel object is shared by the host's coroutines (async_connect,   *)
(* async_disconnect) and by the asyncio tasks the channel creates          *)
(* (_connect_ws, with _listen and _schedule_reconnect running nested in    *)
(* the same task).  asyncio is cooperative: a coroutine runs without       *)
(* interruption from one await to the next, so every action below is the   *)
(* code between two suspension points.                                     *)
(***************************************************************************)
EXTENDS Integers, Sequences, FiniteSets, TLC

\* ------------------------------------------------------------- bounds
MaxTasks     == 3     \* task slots (the slot of a finished, unreferenced task is reused)
MaxWs        == 3     \* transport slots (the slot of an unreferenced transport is reused)
MaxCodes     == 2     \* distinct correlation codes; a fresh one differs from the current one
MaxFailCount == 5     \* cap of the failure counter
MaxHbFail    == 4     \* largest hbFailTimes the server reports
MaxTicks     == 3     \* clock ticks in one run
MaxOverlaps  == 1     \* host calls made while another call or a task is in progress
Epoch        == 1000  \* clock reading (ms) at construction; time.time() is far past 1 s

\* ---------------------------------------------------- program constants
DefaultMaxFails == 3     \* self._max_fails = 3 / hbFailTimes default
BaseDelay       == 5     \* 5 * (2 ** (fail_count - 1))
MaxDelay        == 30    \* min(30, ...)
DedupWindowMs   == 1000  \* now - self._last_message_time < 1   (seconds, here in ms)
TickMs          == 500   \* granularity of the modelled clock

Tasks      == 1..MaxTasks
Transports == 1..MaxWs
None       == 0

VARIABLES
    \* fields of ConnectLifeWebSocket
    ws,                 \* self._ws: None or a transport
    task,               \* self._task: None or a task
    phone_code,         \* self._phone_code: 0 is "", k > 0 a generated uuid
    notification_info,  \* self._notification_info: "none", "info", "nochannel"
    closing,            \* self._closing
    fail_count,         \* self._fail_count
    max_fails,          \* self._max_fails
    last_message_time,  \* self._last_message_time (ms; 0 is the initial 0.0)
    \* asyncio tasks created by the channel
    tpc,                \* task -> position of the task's coroutine
    tws,                \* task -> the transport its receive loop iterates
    cancelReq,          \* task -> Task.cancel() was called, CancelledError not yet delivered
    \* transports opened by session.ws_connect
    wsState,            \* transport -> "unused", "open", "closing", "closed"
    \* the host's coroutines
    cpc,                \* position of async_connect
    dpc,                \* position of async_disconnect
    dws,                \* the transport async_disconnect is closing
    dtask,              \* the task async_disconnect is awaiting
    \* environment
    now,                \* time.time() in ms
    overlaps, \* host calls made so far while another call or a task was in progress
    \* history (not read by the program)
    consec,             \* failures since the last successful transport open
    waits,              \* backoff waits started since the last successful transport open
    lastMsg,            \* the text frame the step just taken handled, if any: arrival
                        \* time, time of the previous accepted frame, payload, whether it
                        \* passed the window, outcome, handling task, fail_count before
    acceptedAt,         \* arrival time of the last frame that passed the window, -1 if none
    exhausted,          \* a task found fail_count > max_fails since the last connect()
    hostEvent,          \* what the step just taken showed the host through the public interface
    connectResult,      \* how the last async_connect ended; "none" after a later disconnect()
    failAtConnect,      \* fail_count at the call of an async_connect that has not started a task
    discReq,            \* disconnect() was called and connect() not since
    discDone,           \* disconnect() returned and connect() not called since
    retryDue,           \* a failure left fail_count <= max_fails and no attempt followed yet
    opened,             \* the failure counter as it was before the transport open the
                        \* step just taken made, -1 if the step opened no transport
    leaked              \* the step just taken left an open transport without any reference to it

\* The stateless library functions (mode_converter.py, device_manager.py) are
\* modelled as calls: an argument record and what the call gave.
VARIABLES
    call,               \* the library call: function name and arguments
    ret                 \* what it returned or raised; "pending" before it ran

libVars == << call, ret >>

channelVars == << ws, task, phone_code, notification_info, closing, fail_count, max_fails,
           last_message_time, tpc, tws, cancelReq, wsState, cpc, dpc, dws, dtask,
           now, overlaps, consec, waits, lastMsg, acceptedAt, exhausted, hostEvent,
           connectResult, failAtConnect, discReq, discDone, retryDue, opened, leaked >>

vars == << channelVars, libVars >>

\* ------------------------------------------------------------ helpers
Min(a, b) == IF a < b THEN a ELSE b

RECURSIVE Pow2(_)
Pow2(n) == IF n <= 0 THEN 1 ELSE 2 * Pow2(n - 1)

AlivePcs    == {"start", "token", "open", "listen", "sleep", "rtoken", "rinfo"}
FinishedPcs == {"done", "cancelled", "failed"}
RetryPcs    == {"sleep", "rtoken", "rinfo"}

Alive(t) == tpc[t] \in AlivePcs

\* str(uuid.uuid4()): a code that differs from the current one.
FreshCode(c) == (c % MaxCodes) + 1

\* A finished task that no handle refers to is garbage: its slot is free.
\* tk, dp, dt are the values of task, dpc, dtask after the step.
SweepTasks(pcs, tk, dp, dt) ==
    [t \in Tasks |-> IF pcs[t] \in FinishedPcs /\ t # tk /\ ~(dp = "await" /\ t = dt)
                       THEN "none" ELSE pcs[t]]

\* The sweep for a step that leaves task, dpc and dtask alone.
Fin(pcs) == SweepTasks(pcs, task, dpc, dtask)

FreeTasks == { t \in Tasks : tpc[t] = "none" }
NewTask   == CHOOSE t \in FreeTasks : \A u \in FreeTasks : t <= u

\* A transport is referenced by self._ws, by the close() async_disconnect is
\* suspended in, and by the receive loop iterating it.
Referenced(w, wsv, dp, dw, pcs, tw) ==
    \/ w = wsv
    \/ dp = "close" /\ w = dw
    \/ \E t \in Tasks : pcs[t] = "listen" /\ tw[t] = w

\* After every step the slot of a transport nothing refers to is freed; when
\* the transport was still open, it has been leaked.
Sweep(st) ==
    /\ wsState' = [w \in Transports |->
                     IF Referenced(w, ws', dpc', dws', tpc', tws') THEN st[w] ELSE "unused"]
    /\ leaked' = \E w \in Transports : /\ st[w] \in {"open", "closing"}
                                       /\ ~Referenced(w, ws', dpc', dws', tpc', tws')
    /\ UNCHANGED libVars

FreeTransports == { w \in Transports : wsState[w] = "unused" }
NewTransport   == CHOOSE w \in FreeTransports : \A u \in FreeTransports : w <= u

\* What the notification-info endpoint can answer: nothing, an exception, a
\* record with a push channel and a server-provided hbFailTimes, or a record
\* without any push channel.
HbFailTimes == {DefaultMaxFails, MaxHbFail}
InfoAnswers == [kind : {"info"}, hb : HbFailTimes]
                 \cup {[kind |-> "nochannel", hb |-> DefaultMaxFails]}
                 \cup {[kind |-> "none", hb |-> 0], [kind |-> "raise", hb |-> 0]}

\* The history variables lastMsg, hostEvent, opened and leaked describe the step just taken.
NoMsg == [at |-> 0, prev |-> -1, payload |-> "none", accepted |-> FALSE, result |-> "none",
          by |-> None, fails |-> 0]

NoOpen      == opened' = -1
NoFrame     == lastMsg' = NoMsg /\ UNCHANGED acceptedAt /\ NoOpen
NoHostEvent == hostEvent' = "none"
NoLeak      == leaked' = FALSE /\ UNCHANGED wsState /\ UNCHANGED libVars

\* The channel object after __init__.
ChannelInit ==
    /\ ws = None
    /\ task = None
    /\ phone_code = 0
    /\ notification_info = "none"
    /\ closing = FALSE
    /\ fail_count = 0
    /\ max_fails = DefaultMaxFails
    /\ last_message_time = 0
    /\ tpc = [t \in Tasks |-> "none"]
    /\ tws = [t \in Tasks |-> None]
    /\ cancelReq = [t \in Tasks |-> FALSE]
    /\ wsState = [w \in Transports |-> "unused"]
    /\ cpc = "idle"
    /\ dpc = "idle"
    /\ dws = None
    /\ dtask = None
    /\ now = Epoch
    /\ overlaps = 0
    /\ consec = 0
    /\ waits = << >>
    /\ lastMsg = NoMsg
    /\ acceptedAt = -1
    /\ exhausted = FALSE
    /\ hostEvent = "none"
    /\ connectResult = "none"
    /\ failAtConnect = 0
    /\ discReq = FALSE
    /\ discDone = FALSE
    /\ retryDue = FALSE
    /\ opened = -1
    /\ leaked = FALSE

\* No library call is under way.
NoCall == [op |-> "none"]

Init == ChannelInit /\ call = NoCall /\ ret = "none"

\* ------------------------------------------------- _schedule_reconnect
\* The delay with the exponent taken from the counter itself (one doubling too many).
BackoffDoubled(n) == Min(MaxDelay, BaseDelay * Pow2(n))

\* delay = min(30, 5 * (2 ** (self._fail_count - 1)))
Backoff(n) == Min(MaxDelay, BaseDelay * Pow2(n - 1))

\* The ceiling test taken one failure late.
RetriesExhaustedLate(count, ceiling) == count > ceiling + 1

\* if self._fail_count > self._max_fails: return
RetriesExhausted(count, ceiling) == count > ceiling

\* _schedule_reconnect up to its first await, run inside task t: the counter is
\* incremented, then either the task returns (retries exhausted: only a log
\* line is written) or it starts the backoff sleep.
ScheduleReconnect(t) ==
    /\ fail_count < MaxFailCount
    /\ fail_count' = fail_count + 1
    /\ consec' = consec + 1
    /\ tws' = [tws EXCEPT ![t] = None]
    /\ IF RetriesExhausted(fail_count + 1, max_fails)
         THEN /\ tpc' = Fin([tpc EXCEPT ![t] = "done"])
              /\ waits' = waits
              /\ exhausted' = TRUE
              /\ retryDue' = FALSE
         ELSE /\ tpc' = [tpc EXCEPT ![t] = "sleep"]
              /\ waits' = Append(waits, [n |-> consec + 1, delay |-> Backoff(fail_count + 1)])
              /\ exhausted' = exhausted
              /\ retryDue' = ~closing

reconVars == << fail_count, consec, waits, exhausted, retryDue >>

\* The finally clause without the reconnect: the task just ends.
ListenFinallySilent(t, endPc) ==
    /\ tpc' = Fin([tpc EXCEPT ![t] = endPc])
    /\ tws' = [tws EXCEPT ![t] = None]
    /\ UNCHANGED reconVars

\* The finally clause of _listen: if not self._closing: await self._schedule_reconnect().
\* endPc is how the task ends when the clause does nothing.
ListenFinally(t, endPc) ==
    IF ~closing
      THEN ScheduleReconnect(t)
      ELSE /\ tpc' = Fin([tpc EXCEPT ![t] = endPc])
           /\ tws' = [tws EXCEPT ![t] = None]
           /\ UNCHANGED reconVars

\* ----------------------------------------------------- _handle_message
\* A text frame is abstracted to the stage at which its payload fails:
\*   "ok"              base64 of UTF-8 JSON
\*   "bad_padding"     e.g. "abc": b64decode raises binascii.Error
\*   "non_ascii"       e.g. a frame holding U+00E9: b64decode raises ValueError
\*   "bad_utf8"        e.g. "/w==": bytes.decode raises UnicodeDecodeError
\*   "bad_json"        e.g. "e30x": json.loads raises JSONDecodeError
\*   "callback_raises" decodes, and the registered callback raises
Payloads == {"ok", "bad_padding", "non_ascii", "bad_utf8", "bad_json", "callback_raises"}

B64Decode(p)  == CASE p = "bad_padding" -> "binascii.Error"
                   [] p = "non_ascii"   -> "ValueError"
                   [] OTHER             -> "ok"
Utf8Decode(p) == IF p = "bad_utf8" THEN "UnicodeDecodeError" ELSE "ok"
JsonLoads(p)  == IF p = "bad_json" THEN "JSONDecodeError" ELSE "ok"
Callback(p)   == IF p = "callback_raises" THEN "Exception" ELSE "ok"

\* except (binascii.Error, UnicodeDecodeError, json.JSONDecodeError)
HandledErrors == {"binascii.Error", "UnicodeDecodeError", "JSONDecodeError"}

\* The outcome of _handle_message: "delivered" (callback returned), "dropped"
\* (a handled decode error, logged), "raised" (an exception left
\* _handle_message before the callback ran), "callback_raised" (the callback
\* ran and its exception left _handle_message).
HandleMessage(p) ==
    LET stage(e, rest) == IF e = "ok" THEN rest
                          ELSE IF e \in HandledErrors THEN "dropped" ELSE "raised"
    IN  stage(B64Decode(p),
          stage(Utf8Decode(p),
            stage(JsonLoads(p),
              IF Callback(p) = "ok" THEN "delivered"
              ELSE IF Callback(p) \in HandledErrors THEN "dropped" ELSE "callback_raised")))

\* The window with its far edge included.
InWindowInclusive(t_now, t_last) == t_now - t_last <= DedupWindowMs

\* if now - self._last_message_time < 1: continue
InWindow(t_now, t_last) == t_now - t_last < DedupWindowMs

\* ------------------------------------------------------- async_connect
\* Lines 157-160: up to the await of the token provider.
DoConnect ==
    /\ cpc = "idle"
    /\ closing' = FALSE
    /\ phone_code' = FreshCode(phone_code)
    /\ cpc' = "token"
    /\ discReq' = FALSE
    /\ discDone' = FALSE
    /\ exhausted' = FALSE
    /\ retryDue' = FALSE
    /\ connectResult' = "pending"
    /\ failAtConnect' = fail_count
    /\ NoFrame /\ NoHostEvent
    /\ UNCHANGED << ws, task, notification_info, fail_count, max_fails, last_message_time,
                    tpc, tws, cancelReq, dpc, dws, dtask, now, consec, waits >>
    /\ NoLeak

\* The host calls connect() on a channel that has no task running and while
\* no other call on the channel is in progress.
Connect ==
    /\ dpc = "idle"
    /\ \A t \in Tasks : ~Alive(t)
    /\ DoConnect
    /\ UNCHANGED overlaps

\* The host calls connect() while a channel task is running or a disconnect()
\* is in progress.
ConnectOverlap ==
    /\ dpc # "idle" \/ \E t \in Tasks : Alive(t)
    /\ overlaps < MaxOverlaps
    /\ overlaps' = overlaps + 1
    /\ DoConnect

\* What the caller of async_connect gets: the coroutine returns None at line
\* 163, at line 168, after line 170 and after the except clause of line 171,
\* which logs the exception and does not re-raise it.
AsyncConnectReturns(outcome) == "connect_returned"

\* async_connect returns (it never raises: except Exception logs).  outcome
\* records what the token provider or the server answered.
ConnectReturn(outcome) ==
    /\ cpc' = "idle"
    /\ connectResult' = outcome
    /\ failAtConnect' = IF outcome = "started" THEN 0 ELSE failAtConnect
    /\ hostEvent' = AsyncConnectReturns(outcome)

\* access_token = await self._get_token()
ConnectToken(ok) ==
    /\ cpc = "token"
    /\ IF ok THEN /\ cpc' = "register"
                  /\ NoHostEvent
                  /\ UNCHANGED << connectResult, failAtConnect >>
             ELSE ConnectReturn("token_raised")
    /\ NoFrame
    /\ UNCHANGED << ws, task, phone_code, notification_info, closing, fail_count, max_fails,
                    last_message_time, tpc, tws, cancelReq, dpc, dws, dtask, now,
                    overlaps, consec, waits, exhausted, discReq, discDone, retryDue >>
    /\ NoLeak

\* The handshake with the answer of the registration ignored.
RegistrationOkAlways(answer) == TRUE

\* if not await self._register_phone_code(access_token): (line 161)
RegistrationOk(answer) == answer = "accepted"

\* if not self._notification_info: (lines 166 and 151)
HasInfo(kind) == kind # "none"

\* The server answers the registration: lines 161-165, up to the await in
\* _load_notification_info.
ConnectRegister(answer) ==
    /\ cpc = "register"
    /\ CASE answer = "raise" -> ConnectReturn("registration_raised")
         [] ~RegistrationOk(answer) -> ConnectReturn("registration_rejected")
         [] OTHER -> /\ cpc' = "info"
                     /\ connectResult' = IF answer = "accepted" THEN connectResult
                                         ELSE "registration_rejected"
                     /\ NoHostEvent
                     /\ UNCHANGED failAtConnect
    /\ NoFrame
    /\ UNCHANGED << ws, task, phone_code, notification_info, closing, fail_count, max_fails,
                    last_message_time, tpc, tws, cancelReq, dpc, dws, dtask, now,
                    overlaps, consec, waits, exhausted, discReq, discDone, retryDue >>
    /\ NoLeak

\* What the notification-info fetch did, for the history.
InfoOutcome(a) == CASE a.kind = "raise" -> "info_raised"
                    [] a.kind = "none"  -> "info_none"
                    [] OTHER            -> "started"

\* get_notification_info answers: lines 64-69, then lines 166-170: the check of
\* self._notification_info and create_task(self._connect_ws()).
ConnectInfo(a) ==
    /\ cpc = "info"
    /\ IF a.kind = "raise"
         THEN /\ ConnectReturn(InfoOutcome(a))
              /\ UNCHANGED << notification_info, max_fails, task, tpc >>
         ELSE /\ notification_info' = a.kind
              /\ max_fails' = IF a.kind # "none" THEN a.hb ELSE max_fails
              /\ IF ~HasInfo(a.kind)
                   THEN /\ ConnectReturn(InfoOutcome(a))
                        /\ UNCHANGED << task, tpc >>
                   ELSE /\ FreeTasks # {}
                        /\ task' = NewTask
                        /\ tpc' = SweepTasks([tpc EXCEPT ![NewTask] = "start"],
                                             NewTask, dpc, dtask)
                        /\ cpc' = "idle"
                        /\ connectResult' = IF connectResult = "pending"
                                              THEN InfoOutcome(a) ELSE connectResult
                        /\ failAtConnect' = IF connectResult' = "started"
                                              THEN 0 ELSE failAtConnect
                        /\ hostEvent' = AsyncConnectReturns("started")
    /\ NoFrame
    /\ UNCHANGED << ws, phone_code, closing, fail_count, last_message_time, tws, cancelReq,
                    dpc, dws, dtask, now, overlaps, consec, waits, exhausted, discReq,
                    discDone, retryDue >>
    /\ NoLeak

\* --------------------------------------------------------- _connect_ws
\* The task starts running: lines 72-86, up to the await of the token provider.
TaskStart(t) ==
    /\ tpc[t] = "start" /\ ~cancelReq[t]
    /\ tpc' = Fin([tpc EXCEPT ![t] =
                 IF notification_info = "none" \/ phone_code = 0 THEN "done"
                 ELSE IF notification_info = "nochannel" THEN "done"
                 ELSE "token"])
    /\ NoFrame /\ NoHostEvent
    /\ UNCHANGED << ws, task, phone_code, notification_info, closing, fail_count, max_fails,
                    last_message_time, tws, cancelReq, cpc, dpc, dws, dtask, now,
                    overlaps, consec, waits, exhausted, connectResult, failAtConnect, discReq,
                    discDone, retryDue >>
    /\ NoLeak

\* access_token = await self._get_token(): a token, or an exception that is no
\* aiohttp.ClientError and leaves the task.
TaskToken(t, ok) ==
    /\ tpc[t] = "token" /\ ~cancelReq[t]
    /\ tpc' = Fin([tpc EXCEPT ![t] = IF ok THEN "open" ELSE "failed"])
    /\ retryDue' = IF ok THEN FALSE ELSE retryDue
    /\ NoFrame /\ NoHostEvent
    /\ UNCHANGED << ws, task, phone_code, notification_info, closing, fail_count, max_fails,
                    last_message_time, tws, cancelReq, cpc, dpc, dws, dtask, now,
                    overlaps, consec, waits, exhausted, connectResult, failAtConnect, discReq,
                    discDone >>
    /\ NoLeak

\* The counter left as it was by a successful open.
ResetFailCountKept(c) == c

\* self._fail_count = 0 (line 98)
ResetFailCount(c) == 0

\* self._ws = await self._session.ws_connect(...) succeeds: lines 94-99 and the
\* entry of _listen up to its first await.
TaskOpenOk(t) ==
    /\ tpc[t] = "open" /\ ~cancelReq[t]
    /\ FreeTransports # {}
    /\ ws' = NewTransport
    /\ fail_count' = ResetFailCount(fail_count)
    /\ opened' = fail_count
    /\ consec' = 0
    /\ waits' = << >>
    /\ tws' = [tws EXCEPT ![t] = NewTransport]
    /\ tpc' = [tpc EXCEPT ![t] = "listen"]
    /\ lastMsg' = NoMsg /\ UNCHANGED acceptedAt /\ NoHostEvent
    /\ UNCHANGED << task, phone_code, notification_info, closing, max_fails,
                    last_message_time, cancelReq, cpc, dpc, dws, dtask, now, overlaps, exhausted,
                    connectResult, failAtConnect, discReq, discDone, retryDue >>
    /\ Sweep([wsState EXCEPT ![NewTransport] = "open"])

\* ws_connect raises aiohttp.ClientError: lines 100-102.
TaskOpenFail(t) ==
    /\ tpc[t] = "open" /\ ~cancelReq[t]
    /\ ScheduleReconnect(t)
    /\ NoFrame /\ NoHostEvent
    /\ UNCHANGED << ws, task, phone_code, notification_info, closing, max_fails,
                    last_message_time, cancelReq, cpc, dpc, dws, dtask, now,
                    overlaps, connectResult, failAtConnect, discReq, discDone >>
    /\ NoLeak

\* ------------------------------------------------------------- _listen
\* A TEXT frame arrives: lines 109-114, with _handle_message and, when an
\* exception leaves the loop, lines 121-125.
TaskListenText(t, p) ==
    /\ tpc[t] = "listen" /\ ~cancelReq[t]
    /\ NoOpen
    /\ wsState[tws[t]] = "open"
    /\ IF InWindow(now, last_message_time)
         THEN /\ lastMsg' = [at |-> now, prev |-> acceptedAt, payload |-> "unread",
                             accepted |-> FALSE, result |-> "skipped",
                             by |-> t, fails |-> fail_count]
              /\ NoHostEvent
              /\ UNCHANGED << last_message_time, acceptedAt, tpc, tws, reconVars >>
         ELSE /\ last_message_time' = now
              /\ acceptedAt' = now
              /\ lastMsg' = [at |-> now, prev |-> acceptedAt, payload |-> p,
                             accepted |-> TRUE, result |-> HandleMessage(p),
                             by |-> t, fails |-> fail_count]
              /\ hostEvent' = IF HandleMessage(p) \in {"delivered", "callback_raised"}
                                THEN "delta" ELSE "none"
              /\ IF HandleMessage(p) \in {"raised", "callback_raised"}
                   THEN ListenFinally(t, "done")
                   ELSE UNCHANGED << tpc, tws, reconVars >>
    /\ UNCHANGED << ws, task, phone_code, notification_info, closing, max_fails, cancelReq,
                    cpc, dpc, dws, dtask, now, overlaps, connectResult, failAtConnect, discReq,
                    discDone >>
    /\ Sweep(wsState)

\* An ERROR message arrives (the transport library has closed the transport
\* before it hands the message out): break, then the finally clause.
TaskListenError(t) ==
    /\ tpc[t] = "listen" /\ ~cancelReq[t]
    /\ wsState[tws[t]] = "open"
    /\ ListenFinally(t, "done")
    /\ NoFrame /\ NoHostEvent
    /\ UNCHANGED << ws, task, phone_code, notification_info, closing, max_fails,
                    last_message_time, cancelReq, cpc, dpc, dws, dtask, now,
                    overlaps, connectResult, failAtConnect, discReq, discDone >>
    /\ Sweep([wsState EXCEPT ![tws[t]] = "closed"])

\* A CLOSED message arrives or the stream ends: the server closed the
\* transport, or close() was called on it by async_disconnect.
TaskListenClosed(t) ==
    /\ tpc[t] = "listen" /\ ~cancelReq[t]
    /\ ListenFinally(t, "done")
    /\ NoFrame /\ NoHostEvent
    /\ UNCHANGED << ws, task, phone_code, notification_info, closing, max_fails,
                    last_message_time, cancelReq, cpc, dpc, dws, dtask, now,
                    overlaps, connectResult, failAtConnect, discReq, discDone >>
    /\ Sweep([wsState EXCEPT ![tws[t]] = IF @ = "open" THEN "closed" ELSE @])

\* ------------------------------------- _schedule_reconnect, after the sleep
\* await asyncio.sleep(delay) returns: lines 146-149.
TaskSleepDone(t) ==
    /\ tpc[t] = "sleep" /\ ~cancelReq[t]
    /\ tpc' = Fin([tpc EXCEPT ![t] = IF closing THEN "done" ELSE "rtoken"])
    /\ NoFrame /\ NoHostEvent
    /\ UNCHANGED << ws, task, phone_code, notification_info, closing, fail_count, max_fails,
                    last_message_time, tws, cancelReq, cpc, dpc, dws, dtask, now,
                    overlaps, consec, waits, exhausted, connectResult, failAtConnect, discReq,
                    discDone, retryDue >>
    /\ NoLeak

\* access_token = await self._get_token() returns or raises: line 149, and
\* _load_notification_info up to its await.
TaskRetryToken(t, ok) ==
    /\ tpc[t] = "rtoken" /\ ~cancelReq[t]
    /\ tpc' = Fin([tpc EXCEPT ![t] = IF ~ok THEN "failed"
                                     ELSE IF phone_code = 0 THEN "done" ELSE "rinfo"])
    /\ NoFrame /\ NoHostEvent
    /\ UNCHANGED << ws, task, phone_code, notification_info, closing, fail_count, max_fails,
                    last_message_time, tws, cancelReq, cpc, dpc, dws, dtask, now,
                    overlaps, consec, waits, exhausted, connectResult, failAtConnect, discReq,
                    discDone, retryDue >>
    /\ NoLeak

\* get_notification_info answers: lines 64-69 and 151-152.  The old task
\* creates the new one and returns without another await.
TaskRetryInfo(t, a) ==
    /\ tpc[t] = "rinfo" /\ ~cancelReq[t]
    /\ IF a.kind = "raise"
         THEN /\ tpc' = Fin([tpc EXCEPT ![t] = "failed"])
              /\ UNCHANGED << notification_info, max_fails, task >>
         ELSE /\ notification_info' = a.kind
              /\ max_fails' = IF a.kind # "none" THEN a.hb ELSE max_fails
              /\ IF ~HasInfo(a.kind)
                   THEN /\ tpc' = Fin([tpc EXCEPT ![t] = "done"])
                        /\ UNCHANGED task
                   ELSE /\ FreeTasks # {}
                        /\ task' = NewTask
                        /\ tpc' = SweepTasks([tpc EXCEPT ![t] = "done", ![NewTask] = "start"],
                                             NewTask, dpc, dtask)
    /\ NoFrame /\ NoHostEvent
    /\ UNCHANGED << ws, phone_code, closing, fail_count, last_message_time, tws, cancelReq,
                    cpc, dpc, dws, dtask, now, overlaps, consec, waits, exhausted,
                    connectResult, failAtConnect, discReq, discDone, retryDue >>
    /\ NoLeak

\* CancelledError is thrown into the task at the await it is suspended in.  No
\* handler of the channel catches it (it is no Exception); in the receive loop
\* the finally clause of _listen still runs.
TaskCancelled(t) ==
    /\ Alive(t) /\ cancelReq[t]
    /\ cancelReq' = [cancelReq EXCEPT ![t] = FALSE]
    /\ IF tpc[t] = "listen"
         THEN ListenFinally(t, "cancelled")
         ELSE /\ tpc' = Fin([tpc EXCEPT ![t] = "cancelled"])
              /\ UNCHANGED << tws, reconVars >>
    /\ NoFrame /\ NoHostEvent
    /\ UNCHANGED << ws, task, phone_code, notification_info, closing, max_fails,
                    last_message_time, cpc, dpc, dws, dtask, now, overlaps, connectResult,
                    failAtConnect, discReq, discDone >>
    /\ Sweep(wsState)

\* ---------------------------------------------------- async_disconnect
\* Lines 180-187, entered without an await in between: cancel the task and
\* await it.  Awaiting a finished task does not suspend: it returns, or
\* re-raises the exception the task ended with.
DisconnectTail ==
    IF task = None
      THEN /\ dpc' = "idle"
           /\ discDone' = TRUE
           /\ hostEvent' = "disconnect_returned"
           /\ tpc' = SweepTasks(tpc, None, "idle", None)
           /\ UNCHANGED << task, dtask, cancelReq >>
    ELSE IF Alive(task)
      THEN /\ cancelReq' = [cancelReq EXCEPT ![task] = TRUE]
           /\ dpc' = "await"
           /\ dtask' = task
           /\ NoHostEvent
           /\ UNCHANGED << task, tpc, discDone >>
    ELSE IF tpc[task] = "failed"
      THEN /\ dpc' = "idle"
           /\ hostEvent' = "disconnect_raised"
           /\ UNCHANGED << task, tpc, dtask, cancelReq, discDone >>
      ELSE /\ task' = None
           /\ dpc' = "idle"
           /\ discDone' = TRUE
           /\ hostEvent' = "disconnect_returned"
           /\ tpc' = SweepTasks(tpc, None, "idle", None)
           /\ UNCHANGED << dtask, cancelReq >>

\* Lines 176-178: set the flag; close() of an open transport suspends (the
\* close handshake), close() of a closed one returns at once.
DoDisconnect ==
    /\ dpc = "idle"
    /\ closing' = TRUE
    /\ discReq' = TRUE
    /\ retryDue' = FALSE
    /\ connectResult' = IF cpc = "idle" THEN "none" ELSE connectResult
    /\ failAtConnect' = IF cpc = "idle" THEN 0 ELSE failAtConnect
    /\ IF ws # None /\ wsState[ws] = "open"
         THEN /\ dpc' = "close"
              /\ dws' = ws
              /\ NoHostEvent
              /\ UNCHANGED << ws, task, tpc, dtask, cancelReq, discDone >>
         ELSE /\ ws' = None
              /\ DisconnectTail
              /\ UNCHANGED dws
    /\ NoFrame
    /\ UNCHANGED << phone_code, notification_info, fail_count, max_fails, last_message_time,
                    tws, cpc, now, consec, waits, exhausted >>
    /\ Sweep(IF ws # None /\ wsState[ws] = "open"
               THEN [wsState EXCEPT ![ws] = "closing"] ELSE wsState)

\* The host calls disconnect() while no other call on the channel is in progress.
Disconnect ==
    /\ cpc = "idle"
    /\ DoDisconnect
    /\ UNCHANGED overlaps

\* The host calls disconnect() while a connect() is in progress.
DisconnectOverlap ==
    /\ cpc # "idle"
    /\ overlaps < MaxOverlaps
    /\ overlaps' = overlaps + 1
    /\ DoDisconnect

\* await self._ws.close() returns: line 179, then lines 180-187.
DisconnectCloseDone ==
    /\ dpc = "close"
    /\ ws' = None
    /\ dws' = None
    /\ DisconnectTail
    /\ NoFrame
    /\ UNCHANGED << phone_code, notification_info, closing, fail_count, max_fails,
                    last_message_time, tws, cpc, now, overlaps, consec, waits, exhausted,
                    connectResult, failAtConnect, discReq, retryDue >>
    /\ Sweep([wsState EXCEPT ![dws] = "closed"])

\* await self._task returns or raises: lines 183-187.
DisconnectAwaitDone ==
    /\ dpc = "await"
    /\ tpc[dtask] \in FinishedPcs
    /\ dpc' = "idle"
    /\ dtask' = None
    /\ IF tpc[dtask] = "failed"
         THEN /\ hostEvent' = "disconnect_raised"
              /\ tpc' = SweepTasks(tpc, task, "idle", None)
              /\ UNCHANGED << task, discDone >>
         ELSE /\ task' = None
              /\ discDone' = TRUE
              /\ hostEvent' = "disconnect_returned"
              /\ tpc' = SweepTasks(tpc, None, "idle", None)
    /\ NoFrame
    /\ UNCHANGED << ws, phone_code, notification_info, closing, fail_count, max_fails,
                    last_message_time, tws, cancelReq, cpc, dws, now, overlaps, consec,
                    waits, exhausted, connectResult, failAtConnect, discReq, retryDue >>
    /\ NoLeak

\* ------------------------------------------------------------ the clock
Tick ==
    /\ now < Epoch + MaxTicks * TickMs
    /\ \E t \in Tasks : tpc[t] = "listen"
    /\ now' = now + TickMs
    /\ NoFrame /\ NoHostEvent
    /\ UNCHANGED << ws, task, phone_code, notification_info, closing, fail_count, max_fails,
                    last_message_time, tpc, tws, cancelReq, cpc, dpc, dws, dtask,
                    overlaps, consec, waits, exhausted, connectResult, failAtConnect,
                    discReq, discDone, retryDue >>
    /\ NoLeak

\* ------------------------------------------------------- specifications
ChannelStep ==
    \/ \E ok \in BOOLEAN : ConnectToken(ok)
    \/ \E answer \in {"accepted", "rejected", "raise"} : ConnectRegister(answer)
    \/ \E a \in InfoAnswers : ConnectInfo(a)
    \/ \E t \in Tasks :
         \/ TaskStart(t)
         \/ \E ok \in BOOLEAN : TaskToken(t, ok)
         \/ TaskOpenOk(t)
         \/ TaskOpenFail(t)
         \/ \E p \in Payloads : TaskListenText(t, p)
         \/ TaskListenError(t)
         \/ TaskListenClosed(t)
         \/ TaskSleepDone(t)
         \/ \E ok \in BOOLEAN : TaskRetryToken(t, ok)
         \/ \E a \in InfoAnswers : TaskRetryInfo(t, a)
         \/ TaskCancelled(t)
    \/ DisconnectCloseDone
    \/ DisconnectAwaitDone

\* The host follows the channel's state machine: one call at a time, and
\* connect() only on a channel without a running task.
Next == Connect \/ Disconnect \/ ChannelStep \/ Tick

Spec == Init /\ [][Next]_vars

\* A host that also calls connect() and disconnect() while another call or a
\* channel task is in progress.  A run holds at most MaxOverlaps such calls and
\* no host call after the last of them; the clock stands still (all frames of
\* a run arrive within the same instant).
NextOverlap ==
    \/ overlaps < MaxOverlaps /\ (Connect \/ Disconnect)
    \/ ConnectOverlap
    \/ DisconnectOverlap
    \/ ChannelStep

SpecOverlap == Init /\ [][NextOverlap]_vars

TypeOK ==
    /\ ws \in Transports \cup {None}
    /\ task \in Tasks \cup {None}
    /\ phone_code \in 0..MaxCodes
    /\ notification_info \in {"none", "info", "nochannel"}
    /\ closing \in BOOLEAN
    /\ fail_count \in 0..MaxFailCount
    /\ max_fails \in HbFailTimes
    /\ tpc \in [Tasks -> AlivePcs \cup FinishedPcs \cup {"none"}]
    /\ wsState \in [Transports -> {"unused", "open", "closing", "closed"}]
    /\ cpc \in {"idle", "token", "register", "info"}
    /\ dpc \in {"idle", "close", "await"}
    /\ opened \in -1..MaxFailCount

\* ===================================================================
\* mode_converter.py
\* ===================================================================
\* A text is a sequence of characters.  A CJK ideograph is written by its code
\* point ("u81ea" is U+81EA).
MaxFragments == 2     \* a description is made of at most this many fragments
MaxMapLen    == 2     \* entries of a value map

UpperCase == << "A", "B", "C", "D", "E", "F", "G", "H", "I", "J", "K", "L", "M",
                "N", "O", "P", "Q", "R", "S", "T", "U", "V", "W", "X", "Y", "Z" >>
LowerCase == << "a", "b", "c", "d", "e", "f", "g", "h", "i", "j", "k", "l", "m",
                "n", "o", "p", "q", "r", "s", "t", "u", "v", "w", "x", "y", "z" >>

\* str.lower(), character by character; ideographs, digits and signs stay.
LowerChar(c) ==
    IF \E i \in DOMAIN UpperCase : UpperCase[i] = c
      THEN LowerCase[CHOOSE i \in DOMAIN UpperCase : UpperCase[i] = c]
      ELSE c

Lower(text) == [i \in DOMAIN text |-> LowerChar(text[i])]

\* sub in text
In(sub, text) ==
    \E i \in 0..(Len(text) - Len(sub)) : SubSeq(text, i + 1, i + Len(sub)) = sub

\* The chain with heat tested before cool.
convert_mode_heat_first(mode_description) ==
    LET mode_lower == Lower(mode_description)
    IN  IF In(<< "u81ea", "u52a8" >>, mode_description)
              \/ In(<< "a", "u", "t", "o" >>, mode_lower) THEN "auto"
        ELSE IF In(<< "u5236", "u70ed" >>, mode_description)
                   \/ In(<< "h", "e", "a", "t" >>, mode_lower) THEN "heat"
        ELSE IF In(<< "u5236", "u51b7" >>, mode_description)
                   \/ In(<< "c", "o", "o", "l" >>, mode_lower) THEN "cool"
        ELSE IF In(<< "u9664", "u6e7f" >>, mode_description)
                   \/ In(<< "d", "r", "y" >>, mode_lower) THEN "dry"
        ELSE IF In(<< "u9001", "u98ce" >>, mode_description)
                   \/ In(<< "f", "a", "n" >>, mode_lower) THEN "fan_only"
        ELSE IF In(<< "u5173" >>, mode_description)
                   \/ In(<< "o", "f", "f" >>, mode_lower) THEN "off"
        ELSE "None"

\* if "\u81ea\u52a8" in mode_description or "auto" in mode_lower: ... (lines 22-38)
convert_mode_to_ha_string(mode_description) ==
    LET mode_lower == Lower(mode_description)
    IN  IF In(<< "u81ea", "u52a8" >>, mode_description)
              \/ In(<< "a", "u", "t", "o" >>, mode_lower) THEN "auto"
        ELSE IF In(<< "u5236", "u51b7" >>, mode_description)
                   \/ In(<< "c", "o", "o", "l" >>, mode_lower) THEN "cool"
        ELSE IF In(<< "u5236", "u70ed" >>, mode_description)
                   \/ In(<< "h", "e", "a", "t" >>, mode_lower) THEN "heat"
        ELSE IF In(<< "u9664", "u6e7f" >>, mode_description)
                   \/ In(<< "d", "r", "y" >>, mode_lower) THEN "dry"
        ELSE IF In(<< "u9001", "u98ce" >>, mode_description)
                   \/ In(<< "f", "a", "n" >>, mode_lower) THEN "fan_only"
        ELSE IF In(<< "u5173" >>, mode_description)
                   \/ In(<< "o", "f", "f" >>, mode_lower) THEN "off"
        ELSE "None"

\* if "\u81ea\u52a8" == fan_description or "auto" == fan_lower: ... (lines 51-72)
convert_fan_mode_to_ha_string(fan_description) ==
    LET fan_lower == Lower(fan_description)
    IN  IF << "u81ea", "u52a8" >> = fan_description
           \/ << "a", "u", "t", "o" >> = fan_lower
          THEN "auto"
        ELSE IF << "u8d85", "u4f4e" >> = fan_description
                \/ In(<< "u", "l", "t", "r", "a", " ", "l", "o", "w" >>, fan_lower)
          THEN "ultra_low"
        ELSE IF << "u4f4e" >> = fan_description \/ << "l", "o", "w" >> = fan_lower THEN "low"
        ELSE IF \/ << "u4e2d" >> = fan_description
                \/ << "m", "e", "d", "i", "u", "m" >> = fan_lower
                \/ << "m", "e", "d" >> = fan_lower
          THEN "medium"
        ELSE IF << "u9ad8" >> = fan_description \/ << "h", "i", "g", "h" >> = fan_lower THEN "high"
        ELSE IF << "u8d85", "u9ad8" >> = fan_description
                \/ In(<< "u", "l", "t", "r", "a", " ", "h", "i", "g", "h" >>, fan_lower)
          THEN "ultra_high"
        ELSE IF \/ In(<< "m", "e", "d", "i", "u", "m", "_", "l", "o", "w" >>, fan_lower)
                \/ In(<< "m", "e", "d", "i", "u", "m", " ", "l", "o", "w" >>, fan_lower)
          THEN "medium_low"
        ELSE IF \/ In(<< "m", "e", "d", "i", "u", "m", "_", "h", "i", "g", "h" >>, fan_lower)
                \/ In(<< "m", "e", "d", "i", "u", "m", " ", "h", "i", "g", "h" >>, fan_lower)
          THEN "medium_high"
        ELSE "None"

\* for key, value in value_map.items(): ... return key; return None
\* (lines 123-127).  A value map is the sequence of its items in iteration
\* order.
RECURSIVE FindModeFrom(_, _, _)
FindModeFrom(items, ha_mode_string, i) ==
    IF i > Len(items) THEN "None"
    ELSE IF convert_mode_to_ha_string(items[i].v) = ha_mode_string THEN items[i].k
    ELSE FindModeFrom(items, ha_mode_string, i + 1)

\* The lookup returning the last matching key instead of the first.
find_device_value_last(value_map, ha_mode_string) ==
    LET hits == { i \in DOMAIN value_map :
                    convert_mode_to_ha_string(value_map[i].v) = ha_mode_string }
    IN  IF hits = {} THEN "None"
        ELSE value_map[CHOOSE i \in hits : \A j \in hits : j <= i].k

find_device_value_for_ha_mode(value_map, ha_mode_string) ==
    FindModeFrom(value_map, ha_mode_string, 1)

\* The same loop with convert_fan_mode_to_ha_string (lines 144-148).
RECURSIVE FindFanModeFrom(_, _, _)
FindFanModeFrom(items, ha_fan_mode_string, i) ==
    IF i > Len(items) THEN "None"
    ELSE IF convert_fan_mode_to_ha_string(items[i].v) = ha_fan_mode_string THEN items[i].k
    ELSE FindFanModeFrom(items, ha_fan_mode_string, i + 1)

find_device_value_for_ha_fan_mode(value_map, ha_fan_mode_string) ==
    FindFanModeFrom(value_map, ha_fan_mode_string, 1)

\* ----------------------------------------------------------- the inputs
\* Descriptions are built from fragments: the tokens of both vocabularies in
\* several spellings, and text that is no token.
Fragments ==
    { << "a", "u", "t", "o" >>,
      << "C", "o", "o", "l" >>,
      << "H", "E", "A", "T" >>,
      << "d", "r", "y" >>,
      << "f", "a", "n" >>,
      << "O", "f", "f" >>,
      << "u81ea", "u52a8" >>,
      << "u5236", "u51b7" >>,
      << "u5236", "u70ed" >>,
      << "u9664", "u6e7f" >>,
      << "u9001", "u98ce" >>,
      << "u5173" >>,
      << "T", "u", "r", "b", "o" >>,
      << " " >>,
      << "l", "o", "w" >>,
      << "M", "e", "d", "i", "u", "m" >>,
      << "m", "e", "d" >>,
      << "H", "i", "g", "h" >>,
      << "u", "l", "t", "r", "a", " ", "l", "o", "w" >>,
      << "U", "l", "t", "r", "a", " ", "H", "i", "g", "h" >>,
      << "m", "e", "d", "i", "u", "m", " ", "l", "o", "w" >>,
      << "m", "e", "d", "i", "u", "m", "_", "h", "i", "g", "h" >>,
      << "m", "e", "d", "i", "u", "m", " ", "h", "i", "g", "h" >>,
      << "m", "e", "d", "i", "u", "m", "_", "l", "o", "w" >>,
      << "u8d85", "u4f4e" >>,
      << "u4f4e" >>,
      << "u4e2d" >>,
      << "u9ad8" >>,
      << "u8d85", "u9ad8" >>,
      << " ", "s", "p", "e", "e", "d" >> }

\* The text made of the fragments fs[i], ..., fs[Len(fs)].
RECURSIVE Concat(_, _)
Concat(fs, i) == IF i > Len(fs) THEN << >> ELSE fs[i] \o Concat(fs, i + 1)

\* Up to MaxFragments fragments each (an empty one counts for none).
FragmentLists == [1..MaxFragments -> Fragments \cup { << >> }]

\* Descriptions of value-map entries.
Descriptions ==
    { << "A", "u", "t", "o" >>,
      << "u5236", "u51b7" >>,
      << "C", "o", "o", "l" >>,
      << "h", "e", "a", "t" >>,
      << "T", "u", "r", "b", "o" >>,
      << "u9ad8" >>,
      << "H", "i", "g", "h" >>,
      << "m", "e", "d", "i", "u", "m", " ", "h", "i", "g", "h" >>,
      << "l", "o", "w" >> }

MapKeys == { "0", "1", "2", "3" }

HaModes    == { "auto", "cool", "heat", "dry", "fan_only", "off" }
HaFanModes == { "auto", "ultra_low", "low", "medium", "high", "ultra_high",
                "medium_low", "medium_high" }

\* The items of a value map: up to MaxMapLen entries (an entry without key
\* counts for none).
Entries   == [k : MapKeys, v : Descriptions]
NoEntry   == [k |-> "", v |-> << >>]
ItemLists == [1..MaxMapLen -> Entries \cup { NoEntry }]

RECURSIVE Items(_, _)
Items(es, i) ==
    IF i > Len(es) THEN << >>
    ELSE IF es[i] = NoEntry THEN Items(es, i + 1)
    ELSE << es[i] >> \o Items(es, i + 1)

\* dict keys are unique
UniqueKeys(m) == \A i, j \in DOMAIN m : i # j => m[i].k # m[j].k

ModeCall(op, text, value_map, target) ==
    [op |-> op, text |-> text, value_map |-> value_map, target |-> target]

\* ---------------------------------------------------------- the calls
ConvertMode ==
    /\ call.op = "convert_mode" /\ ret = "pending"
    /\ ret' = convert_mode_to_ha_string(call.text)
    /\ UNCHANGED << call, channelVars >>

ConvertFanMode ==
    /\ call.op = "convert_fan_mode" /\ ret = "pending"
    /\ ret' = convert_fan_mode_to_ha_string(call.text)
    /\ UNCHANGED << call, channelVars >>

FindMode ==
    /\ call.op = "find_mode" /\ ret = "pending"
    /\ ret' = find_device_value_for_ha_mode(call.value_map, call.target)
    /\ UNCHANGED << call, channelVars >>

FindFanMode ==
    /\ call.op = "find_fan_mode" /\ ret = "pending"
    /\ ret' = find_device_value_for_ha_fan_mode(call.value_map, call.target)
    /\ UNCHANGED << call, channelVars >>

InitMode ==
    /\ ChannelInit
    /\ ret = "pending"
    /\ \/ \E op \in {"convert_mode", "convert_fan_mode"}, fs \in FragmentLists :
            call = ModeCall(op, Concat(fs, 1), << >>, "")
       \/ \E es \in ItemLists, h \in HaModes :
            /\ UniqueKeys(Items(es, 1))
            /\ call = ModeCall("find_mode", << >>, Items(es, 1), h)
       \/ \E es \in ItemLists, h \in HaFanModes :
            /\ UniqueKeys(Items(es, 1))
            /\ call = ModeCall("find_fan_mode", << >>, Items(es, 1), h)

NextMode == ConvertMode \/ ConvertFanMode \/ FindMode \/ FindFanMode

SpecMode == InitMode /\ [][NextMode]_vars

\* ===================================================================
\* device_manager.py: DeviceParserFactory
\* ===================================================================
MaxProps == 2     \* records of a property list

\* A propertyValueList: absent (None) or a text of comma-separated tokens,
\* held as the sequence of its tokens ("" is the empty sequence).
NoList == [has |-> FALSE, toks |-> << >>]

\* if property_value_list: (None and "" are falsy)
Truthy(l) == l.has /\ l.toks # << >>

\* set(property_value_list.split(",")): "".split(",") is [""]
Split(l) == IF l.toks = << >> THEN { "" } ELSE { l.toks[i] : i \in DOMAIN l.toks }

\* A DeviceAttribute.  value_map is held as the set of its keys (the
\* descriptions go with the keys); an absent or empty value map is {}.
Attribute(attr_type, step, read_write, value_map) ==
    [attr_type |-> attr_type, step |-> step, read_write |-> read_write,
     value_map |-> value_map, value_range |-> NoList]

\* DeviceAttribute(key="f_power_consumption", name="Power Consumption",
\*                 attr_type="Number", step=1, read_write="R")  (lines 88-94)
InjectedPowerConsumption == Attribute("Number", 1, "R", {})

NoAttributes == [k \in {} |-> InjectedPowerConsumption]

\* The attributes a schema declares for the keys used here.
SchemaKeys == { "f_power_display", "f_cool_qvalue", "t_work_mode", "f_power_consumption" }

Template(k) ==
    CASE k = "t_work_mode"         -> Attribute("Enum", 0, "RW", { "0", "1", "2" })
      [] k = "f_power_consumption" -> Attribute("Number", 0, "R", {})
      [] OTHER                     -> Attribute("Number", 0, "R", {})

\* base_parser.attributes: a dict, or something that is none.
NotADict == [is_dict |-> FALSE, attrs |-> NoAttributes]
Schemas ==
    { [is_dict |-> TRUE, attrs |-> [k \in ks |-> Template(k)]] : ks \in SUBSET SchemaKeys }
    \cup { NotADict }

\* The records of a property list.  propertyKey is a str, None ("None") or a
\* list ("[]"); a record may lack the key, or be no dict at all.
ServerKeys == { "f_power_display", "t_work_mode", "f_power_consumption", "f_unknown" }
ValueLists == { NoList,
                [has |-> TRUE, toks |-> << >>],
                [has |-> TRUE, toks |-> << "0", "1" >>],
                [has |-> TRUE, toks |-> << "1", "9" >>],
                [has |-> TRUE, toks |-> << "8", "9" >>] }
Prop(kind, has_key, key, pvl) ==
    [kind |-> kind, has_key |-> has_key, key |-> key, pvl |-> pvl]
WellFormedProps == { Prop("dict", TRUE, k, l) : k \in ServerKeys, l \in ValueLists }
MalformedProps ==
    { Prop("dict", TRUE, "None", NoList),
      Prop("dict", TRUE, "[]", NoList),
      Prop("dict", FALSE, "None", NoList),
      Prop("str", FALSE, "None", NoList) }
NoProp == Prop("absent", FALSE, "None", NoList)
PropLists == [1..MaxProps -> WellFormedProps \cup MalformedProps \cup { NoProp }]

RECURSIVE Records(_, _)
Records(ps, i) ==
    IF i > Len(ps) THEN << >>
    ELSE IF ps[i] = NoProp THEN Records(ps, i + 1)
    ELSE << ps[i] >> \o Records(ps, i + 1)

\* isinstance(prop, dict) and "propertyKey" in prop  (line 42)
HasPropertyKey(prop) == prop.kind = "dict" /\ prop.has_key

\* property_keys = [prop.get("propertyKey") for prop in property_list if ...]
PropertyKeys(property_list) ==
    LET sel == SelectSeq(property_list, HasPropertyKey)
    IN  [i \in DOMAIN sel |-> sel[i].key]

\* isinstance(item, (str, int, float, tuple))  (line 52)
Hashable(item) == item \notin { "None", "[]" }

\* What a factory call gives: a parser with its attributes, or an exception.
Returned(attrs) == [status |-> "returned", attrs |-> attrs]
Raised          == [status |-> "raised", attrs |-> NoAttributes]
NoResult        == [status |-> "none", attrs |-> NoAttributes]

\* return BaseBeanParser() / return Humidity007Parser(): a parser without
\* attributes.
EmptyParser == Returned(NoAttributes)

\* for prop in property_list: if prop.get("propertyKey") == key: ...
\* (lines 62-67), from record j on.  pvl is the variable property_value_list.
\* A record that is no dict has no get(): AttributeError.
RECURSIVE ScanProps(_, _, _, _)
ScanProps(property_list, key, j, pvl) ==
    IF j > Len(property_list)
      THEN [raised |-> FALSE, pvl |-> pvl, found |-> FALSE]
    ELSE IF property_list[j].kind # "dict"
      THEN [raised |-> TRUE, pvl |-> pvl, found |-> FALSE]
    ELSE IF property_list[j].has_key /\ property_list[j].key = key
      THEN IF Truthy(property_list[j].pvl)
             THEN [raised |-> FALSE, pvl |-> property_list[j].pvl, found |-> TRUE]
             ELSE ScanProps(property_list, key, j + 1, property_list[j].pvl)
    ELSE ScanProps(property_list, key, j + 1, pvl)

\* filtered_value_map = {k: ... for k in value_map_keys.intersection(...)}
FilterValueMap(value_map, pvl) == value_map \cap Split(pvl)

\* for key in property_keys: if key in original_attributes: ... (lines 58-84),
\* from key i on.  The attribute object of the schema is updated in place and
\* put into filtered_attributes.  property_value_list.split fails on None.
\* The loop gives filtered_attributes, or raises; original is what it has
\* made of the attributes of the base parser by then.
LoopResult(status, attrs, original) ==
    [status |-> status, attrs |-> attrs, original |-> original]

RECURSIVE FilterLoop(_, _, _, _, _, _)
FilterLoop(keys, i, original_attributes, filtered_attributes, property_list, pvl) ==
    IF i > Len(keys)
      THEN LoopResult("returned", filtered_attributes, original_attributes)
    ELSE IF keys[i] \notin DOMAIN original_attributes
      THEN FilterLoop(keys, i + 1, original_attributes, filtered_attributes,
                      property_list, pvl)
    ELSE
      LET key  == keys[i]
          scan == ScanProps(property_list, key, 1, pvl)
          a0   == original_attributes[key]
          a1   == IF scan.found THEN [a0 EXCEPT !.value_range = scan.pvl] ELSE a0
          a2   == IF a1.value_map # {}
                    THEN [a1 EXCEPT !.value_map = FilterValueMap(@, scan.pvl)]
                    ELSE a1
      IN  IF scan.raised \/ (a1.value_map # {} /\ ~scan.pvl.has)
            THEN LoopResult("raised", NoAttributes, original_attributes)
          ELSE FilterLoop(keys, i + 1,
                          [original_attributes EXCEPT ![key] = a2],
                          [k \in DOMAIN filtered_attributes \cup { key } |->
                             IF k = key THEN a2 ELSE filtered_attributes[k]],
                          property_list, scan.pvl)

\* The early returns of lines 34-54: the attributes are no dict, or a
\* propertyKey is of no hashable type.
EarlyReturn(base_parser, property_list) ==
    \/ ~base_parser.is_dict
    \/ \E i \in DOMAIN PropertyKeys(property_list) :
         ~Hashable(PropertyKeys(property_list)[i])

\* if "f_power_consumption" not in filtered_attributes: ... (lines 87-95)
ForcePowerConsumption(filtered_attributes) ==
    IF "f_power_consumption" \in DOMAIN filtered_attributes THEN filtered_attributes
    ELSE [k \in DOMAIN filtered_attributes \cup { "f_power_consumption" } |->
            IF k = "f_power_consumption" THEN InjectedPowerConsumption
            ELSE filtered_attributes[k]]

create_filtered_parser(base_parser, property_list) ==
    IF EarlyReturn(base_parser, property_list) THEN EmptyParser
    ELSE LET r == FilterLoop(PropertyKeys(property_list), 1, base_parser.attrs,
                             NoAttributes, property_list, NoList)
         IN  IF r.status = "raised" THEN Raised
             ELSE Returned(ForcePowerConsumption(r.attrs))

create_humidity_parser(base_parser, property_list) ==
    IF EarlyReturn(base_parser, property_list) THEN EmptyParser
    ELSE LET r == FilterLoop(PropertyKeys(property_list), 1, base_parser.attrs,
                             NoAttributes, property_list, NoList)
         IN  IF r.status = "raised" THEN Raised ELSE Returned(r.attrs)

\* base_parser.attributes after a factory call: attribute = original_attributes[key]
\* (line 60) is the object of the base parser, and lines 66 and 82 assign to it.
AttributesAfter(base_parser, property_list) ==
    IF EarlyReturn(base_parser, property_list) THEN base_parser.attrs
    ELSE FilterLoop(PropertyKeys(property_list), 1, base_parser.attrs,
                    NoAttributes, property_list, NoList).original

\* The keys under which the returned parser holds the very object the base
\* parser holds: filtered_attributes[key] = attribute  (line 84).
SharedAttributes(base_parser, property_list) ==
    IF EarlyReturn(base_parser, property_list) THEN {}
    ELSE DOMAIN FilterLoop(PropertyKeys(property_list), 1, base_parser.attrs,
                           NoAttributes, property_list, NoList).attrs

\* The parser a factory call returned, as the base parser of a further call.
AsParser(r) == [is_dict |-> TRUE, attrs |-> r.attrs]

\* A factory call: which filter, the base parser and the property list.
FilterCall(op, base_parser, property_list) ==
    [op |-> op, base_parser |-> base_parser, property_list |-> property_list]

Factory(op, base_parser, property_list) ==
    IF op = "create_filtered_parser"
      THEN create_filtered_parser(base_parser, property_list)
      ELSE create_humidity_parser(base_parser, property_list)

\* view = create_..._parser(base_parser, property_list)
FilterFirst ==
    /\ call.op \in { "create_filtered_parser", "create_humidity_parser" }
    /\ ret.n = 0
    /\ ret' = [n |-> 1,
               first |-> Factory(call.op, call.base_parser, call.property_list),
               again |-> NoResult,
               after |-> AttributesAfter(call.base_parser, call.property_list),
               shared |-> SharedAttributes(call.base_parser, call.property_list)]
    /\ UNCHANGED << call, channelVars >>

\* create_..._parser(view, property_list): the view filtered once more.
FilterAgain ==
    /\ call.op \in { "create_filtered_parser", "create_humidity_parser" }
    /\ ret.n = 1
    /\ ret.first.status = "returned"
    /\ ret' = [ret EXCEPT !.n = 2,
                          !.again = Factory(call.op, AsParser(ret.first),
                                            call.property_list)]
    /\ UNCHANGED << call, channelVars >>

InitFilter ==
    /\ ChannelInit
    /\ ret = [n |-> 0, first |-> NoResult, again |-> NoResult,
              after |-> NoAttributes, shared |-> {}]
    /\ \E op \in { "create_filtered_parser", "create_humidity_parser" },
          base_parser \in Schemas, ps \in PropLists :
         call = FilterCall(op, base_parser, Records(ps, 1))

NextFilter == FilterFirst \/ FilterAgain

SpecFilter == InitFilter /\ [][NextFilter]_vars

\* ------------------------------------- the filtered value map, in order
\* filtered_value_map = {k: attribute.value_map[k]
\*                       for k in value_map_keys.intersection(...)}  (lines 75-82)
\* With the value map as the sequence of its items: the comprehension runs
\* over a set of str, whose iteration order is any order (it follows the
\* hashes of the keys, which differ from one interpreter run to the next), so
\* the filtered map is the surviving items in any order.
FilteredValueMaps(value_map, pvl) ==
    LET kept == { i \in DOMAIN value_map : value_map[i].k \in Split(pvl) }
        n    == Cardinality(kept)
    IN  { [j \in 1..n |-> value_map[f[j]]] :
            f \in { g \in [1..n -> kept] : \A a, b \in 1..n : a # b => g[a] # g[b] } }

\* The allowed-value strings of the lookups: "0,1,2,3", "0,1" and "1,2,3".
LookupValueLists ==
    { [has |-> TRUE, toks |-> << "0", "1", "2", "3" >>],
      [has |-> TRUE, toks |-> << "0", "1" >>],
      [has |-> TRUE, toks |-> << "1", "2", "3" >>] }

\* Two runs of: filter the value map of an attribute, then look a target up
\* in the filtered map.
LookupCall(op, value_map, pvl, target) ==
    [op |-> op, value_map |-> value_map, pvl |-> pvl, target |-> target]

\* A run filters the value map (lines 70-82).
FilterValueMapRun ==
    /\ call.op \in { "lookup_mode", "lookup_fan_mode" }
    /\ ret.pc = "filter"
    /\ \E m \in FilteredValueMaps(call.value_map, call.pvl) :
         ret' = [ret EXCEPT !.pc = "find", !.filtered = m]
    /\ UNCHANGED << call, channelVars >>

\* find_device_value_for_ha_mode(filtered_value_map, target)
LookupModeRun ==
    /\ call.op = "lookup_mode"
    /\ ret.pc = "find"
    /\ ret' = [ret EXCEPT !.pc = IF Len(ret.keys) = 1 THEN "done" ELSE "filter",
                          !.keys = Append(@, find_device_value_for_ha_mode(
                                                ret.filtered, call.target))]
    /\ UNCHANGED << call, channelVars >>

\* find_device_value_for_ha_fan_mode(filtered_value_map, target)
LookupFanModeRun ==
    /\ call.op = "lookup_fan_mode"
    /\ ret.pc = "find"
    /\ ret' = [ret EXCEPT !.pc = IF Len(ret.keys) = 1 THEN "done" ELSE "filter",
                          !.keys = Append(@, find_device_value_for_ha_fan_mode(
                                                ret.filtered, call.target))]
    /\ UNCHANGED << call, channelVars >>

InitLookup ==
    /\ ChannelInit
    /\ ret = [pc |-> "filter", filtered |-> << >>, keys |-> << >>]
    /\ \E es \in ItemLists, pvl \in LookupValueLists :
         /\ UniqueKeys(Items(es, 1))
         /\ \/ \E h \in HaModes : call = LookupCall("lookup_mode", Items(es, 1), pvl, h)
            \/ \E h \in HaFanModes :
                 call = LookupCall("lookup_fan_mode", Items(es, 1), pvl, h)

NextLookup == FilterValueMapRun \/ LookupModeRun \/ LookupFanModeRun

SpecLookup == InitLookup /\ [][NextLookup]_vars

\* ===================================================================
\* client.py: ConnectLifeCloudClient.get_devices_with_parsers
\* ===================================================================
MaxDevices == 2   \* devices of a device list

\* supported_device_types = ["009", "008", "007", "006", "016", "035"]
supported_device_types == { "009", "008", "007", "006", "016", "035" }

\* "99" in device_feature_code, for the feature codes used here
Has99(device_feature_code) == device_feature_code \in { "199", "299", "699" }

\* The type and feature codes of the devices of a list; "001" is a type the
\* client does not support.
DevicePairs ==
    { << "009", "100" >>, << "009", "199" >>, << "007", "100" >>,
      << "006", "299" >>, << "035", "699" >>, << "016", "100" >>,
      << "001", "100" >> }

\* static_response.get("status", {}): the two flags the power check reads.
StaticData(Power_function, f_cool_or_heat_qvalue) ==
    [Power_function |-> Power_function, f_cool_or_heat_qvalue |-> f_cool_or_heat_qvalue]
NoStaticData == StaticData("", "")
StaticDatas == { NoStaticData, StaticData("1", ""), StaticData("0", "1") }

\* property_response.get("status", []), for the property lists used here.
PropertyLists ==
    { << >>,
      << Prop("dict", TRUE, "f_power_display", [has |-> TRUE, toks |-> << "0", "1" >>]) >>,
      << Prop("dict", TRUE, "f_power_consumption", [has |-> TRUE, toks |-> << "0", "1" >>]) >>,
      << Prop("dict", TRUE, "t_work_mode", NoList) >> }

\* One entry of deviceList together with what the server answers to the
\* requests made for it: fault is the request or lookup that fails, and
\* f_zone2_select is device.status.get("f_zone2_select") ("None": no such key).
Device(pair, fault, property_list, static_data, f_zone2_select) ==
    [device_type_code |-> pair[1], device_feature_code |-> pair[2], fault |-> fault,
     property_list |-> property_list, static_data |-> static_data,
     f_zone2_select |-> f_zone2_select]

Faults == { "none", "get_property_list", "query_static_data", "get_device_parser" }

\* Every field that the code does not read for the device has one value.
DeviceInputs ==
    { d \in { Device(pair, fault, pl, sd, z) :
                pair \in DevicePairs, fault \in Faults, pl \in PropertyLists,
                sd \in StaticDatas, z \in { "0", "1", "None" } } :
        /\ d.device_type_code \notin supported_device_types
             => d.fault = "none" /\ d.property_list = << >>
        /\ d.fault # "none" => d.property_list = << >>
        /\ d.fault = "query_static_data" => Has99(d.device_feature_code)
        /\ (d.fault # "none" \/ d.device_type_code \notin { "009", "006" }
              \/ ~Has99(d.device_feature_code))
             => d.static_data = NoStaticData
        /\ (d.device_type_code = "006") => d.static_data.f_cool_or_heat_qvalue = ""
        /\ (d.fault # "none" \/ d.device_type_code # "035") => d.f_zone2_select = "1" }

NoDevice == Device(<< "", "" >>, "none", << >>, NoStaticData, "1")
DeviceLists == [1..MaxDevices -> DeviceInputs \cup { NoDevice }]

RECURSIVE DeviceList(_, _)
DeviceList(ds, i) ==
    IF i > Len(ds) THEN << >>
    ELSE IF ds[i] = NoDevice THEN DeviceList(ds, i + 1)
    ELSE << ds[i] >> \o DeviceList(ds, i + 1)

\* get_device_parser(device_type_code, device_feature_code): the class the
\* catalog has for the pair.
get_device_parser(device_type_code, device_feature_code) ==
    CASE device_type_code = "007" -> "Humidity007Parser"
      [] device_type_code = "006" /\ device_feature_code = "299" -> "Split006299Parser"
      [] device_type_code = "035" /\ device_feature_code = "699" -> "SplitWater035699Parser"
      [] device_type_code = "016" -> "BaseDeviceParser"
      [] OTHER -> "BaseBeanParser"

\* parser_class(): the attributes of a new parser of the class.
ParserAttributes(parser_class) ==
    LET keys == CASE parser_class = "SplitWater035699Parser" ->
                       { "f_zone2_select", "f_zone2water_temp2", "t_zone2water_settemp2",
                         "f_power_consumption" }
                  [] parser_class = "Split006299Parser" ->
                       { "t_work_mode", "f_power_consumption" }
                  [] parser_class = "Humidity007Parser" ->
                       { "f_power_display", "t_work_mode", "f_power_consumption" }
                  [] OTHER -> { "f_power_display", "t_work_mode" }
    IN  [k \in keys |-> Template(k)]

\* parser.remove_attribute(key)
remove_attribute(attributes, key) ==
    [k \in DOMAIN attributes \ { key } |-> attributes[k]]

\* new_parser = SplitWater035699Parser(); for key, value in ...: (lines 453-457)
\* The new parser is made as parser was at line 438, with the attributes of
\* its class; the loop then stores in it the attributes of parser other than
\* the two of zone 2.
WithoutZone2(attributes) ==
    LET new_parser == ParserAttributes("SplitWater035699Parser")
        copied     == DOMAIN attributes \ { "f_zone2water_temp2", "t_zone2water_settemp2" }
    IN  [k \in DOMAIN new_parser \cup copied |->
           IF k \in copied THEN attributes[k] ELSE new_parser[k]]

\* property_keys = {prop.get("propertyKey") for prop in property_list
\*                  if "propertyKey" in prop}  (lines 513-515)
PowerPropertyKeys(property_list) ==
    { property_list[i].key : i \in { j \in DOMAIN property_list :
                                       HasPropertyKey(property_list[j]) } }

_check_power_support(device_type_code, device_feature_code, property_list, static_data) ==
    LET property_keys == PowerPropertyKeys(property_list)
        target_keys   == { "f_power_display", "f_cool_qvalue", "f_heat_qvalue" }
    IN  IF device_type_code = "009"
          THEN IF ~Has99(device_feature_code)
                 THEN target_keys \cap property_keys # {}
                 ELSE \/ static_data.Power_function = "1"
                      \/ static_data.f_cool_or_heat_qvalue = "1"
        ELSE IF device_type_code \in { "008", "006", "007" }
          THEN IF ~Has99(device_feature_code)
                 THEN "f_power_display" \in property_keys
                 ELSE static_data.Power_function = "1"
        ELSE target_keys \cap property_keys # {}

\* Mutant: the attribute is kept whatever the check says.
HandlePowerConsumptionKept(has_power, attributes) == attributes

\* if has_power: pass  else: ....remove_attribute("f_power_consumption")
HandlePowerConsumption(has_power, attributes) ==
    IF has_power THEN attributes
    ELSE remove_attribute(attributes, "f_power_consumption")

\* Lines 440-472: the parser stored for the device, "continue" for a parser
\* of no known class, or the exception of a factory call.
ApplyFiltering(parser_class, device) ==
    LET parser == [is_dict |-> TRUE, attrs |-> ParserAttributes(parser_class)]
    IN  CASE parser_class = "BaseBeanParser" ->
               create_filtered_parser(parser, device.property_list)
          [] parser_class = "SplitWater035699Parser" ->
               IF device.f_zone2_select = "0"
                 THEN Returned(WithoutZone2(parser.attrs))
                 ELSE Returned(parser.attrs)
          [] parser_class = "Humidity007Parser" ->
               create_humidity_parser(parser, device.property_list)
          [] parser_class = "Split006299Parser" -> Returned(parser.attrs)
          [] OTHER -> [status |-> "continue", attrs |-> NoAttributes]

\* One pass of the loop body (lines 414-487) for one device.
ProcessDevice(device) ==
    IF device.device_type_code \notin supported_device_types
      THEN [status |-> "continue", attrs |-> NoAttributes]
    ELSE IF device.fault # "none" THEN Raised
    ELSE
      LET r == ApplyFiltering(get_device_parser(device.device_type_code,
                                                device.device_feature_code), device)
          has_power == _check_power_support(device.device_type_code,
                                            device.device_feature_code,
                                            device.property_list, device.static_data)
      IN  IF r.status = "returned"
            THEN Returned(HandlePowerConsumption(has_power, r.attrs))
            ELSE r

\* The call: the answer to the device-list request and the device list.
DiscoveryCall(response, device_list) ==
    [op |-> "get_devices_with_parsers", response |-> response, device_list |-> device_list]

\* The running call: the next device, self._devices, self._static_data,
\* self._parsers and the local devices_with_parsers.
Discovery(pc, i, _devices, _static_data, _parsers, devices_with_parsers) ==
    [pc |-> pc, i |-> i, _devices |-> _devices, _static_data |-> _static_data,
     _parsers |-> _parsers, devices_with_parsers |-> devices_with_parsers]

NoParsers == [id \in {} |-> NoAttributes]
NoStatics == [id \in {} |-> NoStaticData]

Put(f, id, v) == [k \in DOMAIN f \cup { id } |-> IF k = id THEN v ELSE f[k]]

\* response = await self._api_request(...)  (lines 402-411)
GetDeviceList ==
    /\ call.op = "get_devices_with_parsers"
    /\ ret.pc = "start"
    /\ ret' = [ret EXCEPT !.pc = CASE call.response = "error" -> "raised"
                                   [] call.response = "empty" -> "returned"
                                   [] OTHER -> "loop"]
    /\ UNCHANGED << call, channelVars >>

\* The device whose turn it is: device.device_id is its place in the list.
Current == call.device_list[ret.i]

InLoop ==
    /\ call.op = "get_devices_with_parsers"
    /\ ret.pc = "loop"
    /\ ret.i <= Len(call.device_list)

\* What the pass leaves in self._devices and self._static_data (lines 422-434).
DevicesAfter ==
    IF Current.device_type_code \in supported_device_types
      THEN ret._devices \cup { ret.i } ELSE ret._devices

StaticDataAfter ==
    IF /\ Current.device_type_code \in supported_device_types
       /\ Current.fault \notin { "get_property_list", "query_static_data" }
       /\ Has99(Current.device_feature_code)
      THEN Put(ret._static_data, ret.i, Current.static_data)
      ELSE ret._static_data

\* continue  (lines 418-420 and 470-472)
SkipDevice ==
    /\ InLoop
    /\ ProcessDevice(Current).status = "continue"
    /\ ret' = [ret EXCEPT !.i = @ + 1, !._devices = DevicesAfter,
                          !._static_data = StaticDataAfter]
    /\ UNCHANGED << call, channelVars >>

\* devices_with_parsers[device.device_id] = (device, parser)  (line 485)
AddDevice ==
    /\ InLoop
    /\ ProcessDevice(Current).status = "returned"
    /\ ret' = [ret EXCEPT !.i = @ + 1, !._devices = DevicesAfter,
                          !._static_data = StaticDataAfter,
                          !._parsers = Put(@, ret.i, ProcessDevice(Current).attrs),
                          !.devices_with_parsers =
                             Put(@, ret.i, ProcessDevice(Current).attrs)]
    /\ UNCHANGED << call, channelVars >>

\* except Exception as err: raise ConnectLifeCloudError(...)  (lines 491-493)
DiscoveryRaises ==
    /\ InLoop
    /\ ProcessDevice(Current).status = "raised"
    /\ ret' = [ret EXCEPT !.pc = "raised", !._devices = DevicesAfter,
                          !._static_data = StaticDataAfter]
    /\ UNCHANGED << call, channelVars >>

\* return devices_with_parsers  (line 489)
DiscoveryReturns ==
    /\ call.op = "get_devices_with_parsers"
    /\ ret.pc = "loop"
    /\ ret.i > Len(call.device_list)
    /\ ret' = [ret EXCEPT !.pc = "returned"]
    /\ UNCHANGED << call, channelVars >>

InitDiscovery ==
    /\ ChannelInit
    /\ ret = Discovery("start", 1, {}, NoStatics, NoParsers, NoParsers)
    /\ \/ \E response \in { "error", "empty" } : call = DiscoveryCall(response, << >>)
       \/ \E ds \in DeviceLists : call = DiscoveryCall("ok", DeviceList(ds, 1))

NextDiscovery ==
    GetDeviceList \/ SkipDevice \/ AddDevice \/ DiscoveryRaises \/ DiscoveryReturns

SpecDiscovery == InitDiscovery /\ [][NextDiscovery]_vars

\* ===================================================================
\* Properties of the push channel
\* ===================================================================

\* C1: the backoff wait started after the n-th consecutive transport error
\* lasts min(30, 5 * 2^(n-1)) seconds, i.e. 5, 10, 20 and then 30 seconds; the
\* waits of one run of consecutive errors are recorded in order, so with the
\* ceiling 3 three consecutive errors give the waits 5, 10, 20.
C1_BackoffDelays ==
    /\ \A i \in DOMAIN waits :
         /\ waits[i].n >= 1
         /\ waits[i].delay = Min(30, 5 * Pow2(waits[i].n - 1))
         /\ waits[i].delay = CASE waits[i].n = 1 -> 5
                               [] waits[i].n = 2 -> 10
                               [] waits[i].n = 3 -> 20
                               [] OTHER -> 30
         /\ i > 1 => waits[i - 1].n < waits[i].n
    /\ \A t \in Tasks : tpc[t] = "sleep" =>
         Len(waits) >= 1 /\ waits[Len(waits)].n = consec
    /\ (consec = 3 /\ Len(waits) = 3) =>
         << waits[1].delay, waits[2].delay, waits[3].delay >> = << 5, 10, 20 >>

\* Three consecutive errors under the ceiling 3: the third backoff wait is running.
C1_Witness ==
    /\ max_fails = 3
    /\ consec = 3
    /\ waits = << [n |-> 1, delay |-> 5], [n |-> 2, delay |-> 10], [n |-> 3, delay |-> 20] >>
    /\ \E t \in Tasks : tpc[t] = "sleep"

\* C2: once the failure counter exceeds the ceiling (the default 3 or the one
\* the server reported) the channel is closed for good: no channel task is
\* left to wait, fetch a token, fetch the notification info or open a transport,
\* and no backoff wait or re-fetch ever runs with the counter above the ceiling;
\* under the ceiling 3 the fourth consecutive failure ends the channel after
\* exactly three waits.
C2_ExhaustionCloses ==
    /\ exhausted => /\ \A t \in Tasks : ~Alive(t)
                    /\ fail_count > max_fails
    /\ \A t \in Tasks : tpc[t] \in RetryPcs => fail_count <= max_fails
    /\ (exhausted /\ max_fails = 3 /\ consec = 4) => Len(waits) = 3

\* The fourth consecutive failure under the ceiling 3 has closed the channel.
C2_Witness ==
    /\ exhausted
    /\ max_fails = 3
    /\ fail_count = 4
    /\ consec = 4
    /\ Len(waits) = 3
    /\ \A t \in Tasks : ~Alive(t)

\* C3: from the call of disconnect() until the next call of connect() no step
\* of the channel increments the failure counter, starts a backoff wait or
\* opens a new transport.
C3_NoReconnectAfterDisconnect ==
    [][ (discReq /\ discReq') =>
          /\ fail_count' <= fail_count
          /\ \A t \in Tasks : tpc'[t] = "sleep" => tpc[t] = "sleep"
          /\ \A w \in Transports : wsState'[w] = "open" => wsState[w] = "open" ]_vars

\* C4: once disconnect() has returned, and until connect() is called again, no
\* channel task (listener, backoff wait, reconnect attempt) is running,
\* whatever the call was interleaved with.
C4_NoTaskAfterDisconnect ==
    discDone => \A t \in Tasks : ~Alive(t)

\* C5: at most one task of the channel is in the receive loop at any time.
C5_OneListener ==
    Cardinality({ t \in Tasks : tpc[t] = "listen" }) <= 1

\* C6: a text frame passes the window, and is decoded and handed to the
\* callback, exactly if no frame was accepted before it or it arrives at least
\* 1000 ms after the last accepted frame; a frame inside the window is skipped
\* unread and leaves the window where it was.
C6_DedupWindow ==
    lastMsg.result # "none" =>
      /\ lastMsg.accepted <=> (lastMsg.prev = -1 \/ lastMsg.at - lastMsg.prev >= 1000)
      /\ lastMsg.accepted =>
           /\ acceptedAt = lastMsg.at
           /\ last_message_time = lastMsg.at
           /\ lastMsg.payload = "ok" => (lastMsg.result = "delivered" /\ hostEvent = "delta")
      /\ ~lastMsg.accepted =>
           /\ lastMsg.result = "skipped"
           /\ hostEvent = "none"
           /\ acceptedAt = lastMsg.prev
           /\ last_message_time = lastMsg.prev

\* A frame 500 ms after the last accepted one has just been skipped.
C6_Witness ==
    /\ lastMsg.result = "skipped"
    /\ lastMsg.at - lastMsg.prev = 500
    /\ acceptedAt = lastMsg.prev

\* A frame 1500 ms after the last accepted one has just been delivered.
C6_WitnessDelivered ==
    /\ lastMsg.result = "delivered"
    /\ lastMsg.prev # -1
    /\ lastMsg.at - lastMsg.prev = 1500

\* C7: an accepted text frame that fails to decode (bad base64 padding,
\* characters outside ASCII, bytes that are not UTF-8, text that is not JSON)
\* is dropped and nothing else happens: no callback, the handling task stays
\* in its receive loop on the same open transport, the failure counter is what
\* it was and no backoff wait is started.
C7_DecodeFailureDropsOnlyMessage ==
    (lastMsg.accepted /\ lastMsg.payload \in {"bad_padding", "non_ascii", "bad_utf8", "bad_json"}) =>
      /\ lastMsg.result = "dropped"
      /\ hostEvent # "delta"
      /\ tpc[lastMsg.by] = "listen"
      /\ wsState[tws[lastMsg.by]] = "open"
      /\ fail_count = lastMsg.fails

\* C8: after a connect() whose registration was rejected or whose
\* notification-info fetch returned nothing or raised, and until the next host
\* call, the handshake is over, no channel task runs, the failure counter is
\* what it was when connect() was called, and no retry is due.
C8_HandshakeFailureCloses ==
    connectResult \in {"registration_rejected", "info_none", "info_raised"} =>
      /\ cpc = "idle"
      /\ \A t \in Tasks : ~Alive(t)
      /\ fail_count = failAtConnect
      /\ ~retryDue

\* connect() has just returned after the server rejected the registration.
C8_Witness ==
    /\ connectResult = "registration_rejected"
    /\ hostEvent = "connect_returned"
    /\ cpc = "idle"

\* connect() has just returned after the notification-info fetch gave nothing.
C8_WitnessInfo ==
    /\ connectResult \in {"info_none", "info_raised"}
    /\ hostEvent = "connect_returned"

\* C9: while a reconnect is due (a transport failure left the counter at or
\* below the ceiling, no disconnect() was requested and no new attempt has
\* reached the transport open yet) some channel task is waiting or retrying.
C9_NeverStoppedBelowCeiling ==
    (retryDue /\ ~closing /\ fail_count <= max_fails) => \E t \in Tasks : Alive(t)

\* C10: the step in which the retries are exhausted hands something to the
\* host (a return, an exception or a callback).
C10_ExhaustionReported ==
    [][ (~exhausted /\ exhausted') => hostEvent' # "none" ]_vars

\* C11: a connect() that failed in the handshake (token provider raised,
\* registration rejected or raised, notification info missing or its fetch
\* raised) hands its caller something else than a connect() that started the
\* channel does.
C11_HandshakeFailureSurfaced ==
    (/\ hostEvent = AsyncConnectReturns(connectResult)
     /\ connectResult \in {"token_raised", "registration_rejected", "registration_raised",
                           "info_none", "info_raised"}) =>
      hostEvent # AsyncConnectReturns("started")

\* C20: a step that opens a transport leaves the failure counter at zero with
\* the opening task in the receive loop of the new transport, whatever the
\* counter was before.
C20_OpenResetsCounter ==
    opened # -1 =>
      /\ fail_count = 0
      /\ ws # None /\ wsState[ws] = "open"
      /\ \E t \in Tasks : tpc[t] = "listen" /\ tws[t] = ws

\* A reconnect after two failures has just opened its transport.
C20_Witness ==
    /\ opened = 2
    /\ fail_count = 0
    /\ \E t \in Tasks : tpc[t] = "listen"

\* The initial connect has just opened its transport.
C20_WitnessInitial ==
    /\ opened = 0
    /\ connectResult = "started"
    /\ \E t \in Tasks : tpc[t] = "listen"

\* C21: a step in which a task leaves the receive loop while disconnect() is
\* not requested increments the failure counter by exactly one and, when the
\* counter does not exceed the ceiling, leaves that task in one new backoff
\* wait; when it exceeds the ceiling no wait is started.
C21_LoopEndReconnects ==
    [][ \A t \in Tasks :
          (tpc[t] = "listen" /\ tpc'[t] # "listen" /\ ~discReq) =>
            /\ fail_count' = fail_count + 1
            /\ fail_count' <= max_fails =>
                 /\ tpc'[t] = "sleep"
                 /\ Len(waits') = Len(waits) + 1
                 /\ waits'[Len(waits')].delay = Backoff(fail_count')
            /\ fail_count' > max_fails =>
                 /\ waits' = waits
                 /\ ~Alive(t)' ]_vars

\* The callback raised on an accepted frame and the handling task is in the
\* backoff wait of the first failure.
C21_Witness ==
    /\ lastMsg.result = "callback_raised"
    /\ ~discReq
    /\ tpc[lastMsg.by] = "sleep"
    /\ fail_count = lastMsg.fails + 1
    /\ Len(waits) = 1

\* C22: the step in which connect() is called generates a correlation code
\* that differs from the one before and leaves the failure counter at zero,
\* and the first failed transport open after a connect() starts a wait of 5
\* seconds.
C22_ConnectStartsFresh ==
    [][ /\ (cpc = "idle" /\ cpc' = "token") =>
             /\ phone_code' # phone_code
             /\ fail_count' = 0
        /\ \A t \in Tasks :
             (tpc[t] = "open" /\ tpc'[t] # "open" /\ ~cancelReq[t]
                /\ fail_count' # 0 /\ connectResult = "started" /\ consec = 0) =>
               /\ tpc'[t] = "sleep"
               /\ waits'[Len(waits')].delay = 5 ]_vars

\* C29: no step leaves an open transport without any handle to it, and at
\* most one transport is open at any time.
C29_OneOpenTransport ==
    /\ ~leaked
    /\ Cardinality({ w \in Transports : wsState[w] \in { "open", "closing" } }) <= 1

\* C30: disconnect() never ends by raising, and when it has ended the channel
\* holds neither a transport handle nor a task handle.
C30_DisconnectCompletes ==
    /\ hostEvent # "disconnect_raised"
    /\ hostEvent = "disconnect_returned" => (ws = None /\ task = None)

\* ===================================================================
\* Properties of the mode converter
\* ===================================================================

\* C17: the reverse lookups return the key of the earliest entry, in the value
\* map's iteration order, whose description normalizes to the target, and None
\* exactly when no entry does; so whenever some entry normalizes to the target
\* the returned key is one whose description normalizes to it.
C17_ReverseLookup ==
    (call.op \in {"find_mode", "find_fan_mode"} /\ ret # "pending") =>
      LET m == call.value_map
          norm(v) == IF call.op = "find_mode" THEN convert_mode_to_ha_string(v)
                     ELSE convert_fan_mode_to_ha_string(v)
          hits == { i \in DOMAIN m : norm(m[i].v) = call.target }
      IN  /\ (hits = {}) <=> (ret = "None")
          /\ hits # {} => \E i \in hits : m[i].k = ret /\ \A j \in hits : i <= j
          /\ \A i \in DOMAIN m :
               norm(m[i].v) = call.target =>
                 \E j \in DOMAIN m : m[j].k = ret /\ norm(m[j].v) = call.target

\* Two entries normalize to cool; the lookup gave the key of the first.
C17_Witness ==
    /\ call.op = "find_mode"
    /\ call.target = "cool"
    /\ call.value_map = << [k |-> "1", v |-> << "C", "o", "o", "l" >>],
                           [k |-> "0", v |-> << "u5236", "u51b7" >>] >>
    /\ ret = "1"

\* No entry normalizes to the target fan mode.
C17_WitnessNone ==
    /\ call.op = "find_fan_mode"
    /\ call.target = "high"
    /\ call.value_map = << [k |-> "0", v |-> << "T", "u", "r", "b", "o" >>],
                           [k |-> "1", v |-> << "l", "o", "w" >>] >>
    /\ ret = "None"

\* C18: the fan converter gives auto, ultra_low, low, medium, high or
\* ultra_high only for a text that is one of that mode's short tokens (the
\* ideographic token, or an English token compared in lower case), the first
\* mode in that order winning; otherwise medium_low or medium_high when the
\* text contains a compound token; otherwise None.
C18_FanExactMatch ==
    (call.op = "convert_fan_mode" /\ ret # "pending") =>
      LET lower == Lower(call.text)
          short == << [mode |-> "auto", cn |-> << "u81ea", "u52a8" >>,
                       en |-> { << "a", "u", "t", "o" >> }],
                      [mode |-> "ultra_low", cn |-> << "u8d85", "u4f4e" >>,
                       en |-> { << "u", "l", "t", "r", "a", " ", "l", "o", "w" >> }],
                      [mode |-> "low", cn |-> << "u4f4e" >>,
                        en |-> { << "l", "o", "w" >> }],
                      [mode |-> "medium", cn |-> << "u4e2d" >>,
                       en |-> { << "m", "e", "d", "i", "u", "m" >>, << "m", "e", "d" >> }],
                      [mode |-> "high", cn |-> << "u9ad8" >>,
                        en |-> { << "h", "i", "g", "h" >> }],
                      [mode |-> "ultra_high", cn |-> << "u8d85", "u9ad8" >>,
                       en |-> { << "u", "l", "t", "r", "a", " ", "h", "i", "g", "h" >> }] >>
          hits == { i \in DOMAIN short : call.text = short[i].cn \/ lower \in short[i].en }
      IN  ret = IF hits # {} THEN short[CHOOSE i \in hits : \A j \in hits : i <= j].mode
                ELSE IF \/ In(<< "m", "e", "d", "i", "u", "m", "_", "l", "o", "w" >>, lower)
                        \/ In(<< "m", "e", "d", "i", "u", "m", " ", "l", "o", "w" >>, lower)
                  THEN "medium_low"
                ELSE IF \/ In(<< "m", "e", "d", "i", "u", "m", "_", "h", "i", "g", "h" >>, lower)
                        \/ In(<< "m", "e", "d", "i", "u", "m", " ", "h", "i", "g", "h" >>, lower)
                  THEN "medium_high"
                ELSE "None"

\* C19: the mode converter gives the first mode, in the order auto, cool,
\* heat, dry, fan, off, one of whose two tokens occurs in the lower-cased text,
\* and None when no token occurs.
C19_ModeFirstMatch ==
    (call.op = "convert_mode" /\ ret # "pending") =>
      LET lower == Lower(call.text)
          tokens == << [mode |-> "auto", cn |-> << "u81ea", "u52a8" >>,
                        en |-> << "a", "u", "t", "o" >>],
                       [mode |-> "cool", cn |-> << "u5236", "u51b7" >>,
                        en |-> << "c", "o", "o", "l" >>],
                       [mode |-> "heat", cn |-> << "u5236", "u70ed" >>,
                        en |-> << "h", "e", "a", "t" >>],
                       [mode |-> "dry", cn |-> << "u9664", "u6e7f" >>,
                        en |-> << "d", "r", "y" >>],
                       [mode |-> "fan_only", cn |-> << "u9001", "u98ce" >>,
                        en |-> << "f", "a", "n" >>],
                       [mode |-> "off", cn |-> << "u5173" >>,
                        en |-> << "o", "f", "f" >>] >>
          hits == { i \in DOMAIN tokens : In(tokens[i].cn, lower) \/ In(tokens[i].en, lower) }
      IN  /\ ret = IF hits = {} THEN "None"
                   ELSE tokens[CHOOSE i \in hits : \A j \in hits : i <= j].mode
          /\ call.text \in { << "u5236", "u51b7" >>, << "C", "o", "o", "l" >> } => ret = "cool"

\* A text with the tokens of heat and then of cool has been classified cool.
C19_Witness ==
    /\ call.op = "convert_mode"
    /\ call.text = << "H", "E", "A", "T" >> \o << "C", "o", "o", "l" >>
    /\ ret = "cool"

\* A text without any token has been classified None.
C19_WitnessNone ==
    /\ call.op = "convert_mode"
    /\ call.text = << "T", "u", "r", "b", "o" >>
    /\ ret = "None"

\* ===================================================================
\* Properties of the capability filter
\* ===================================================================

\* C12: for every schema and every well-formed property list, the bean-class
\* filter returns a view whose keys are the keys of the schema listed by the
\* server plus f_power_consumption, which is a read-only Number of step 1
\* when the schema did not give it; the humidity filter returns the keys of
\* the schema listed by the server and nothing more.
C12_FilteredKeySet ==
    LET S    == call.base_parser
        P    == call.property_list
        keys == { P[i].key : i \in DOMAIN P } \cap DOMAIN S.attrs
    IN  (/\ call.op \in { "create_filtered_parser", "create_humidity_parser" }
         /\ ret.n >= 1
         /\ S.is_dict
         /\ \A i \in DOMAIN P : P[i] \in WellFormedProps)
        => /\ ret.first.status = "returned"
           /\ call.op = "create_humidity_parser"
                => DOMAIN ret.first.attrs = keys
           /\ call.op = "create_filtered_parser"
                => /\ DOMAIN ret.first.attrs = keys \cup { "f_power_consumption" }
                   /\ "f_power_consumption" \notin keys
                        => LET a == ret.first.attrs["f_power_consumption"]
                           IN  /\ a.attr_type = "Number"
                               /\ a.step = 1
                               /\ a.read_write = "R"

\* C13: a view filtered once more against the same property list has the
\* same keys, the same value maps and the same value ranges.  Stated for
\* the schemas that are mappings and the well-formed property lists.
C13_FilterIdempotent ==
    (/\ call.op \in { "create_filtered_parser", "create_humidity_parser" }
     /\ ret.n = 2
     /\ call.base_parser.is_dict
     /\ \A i \in DOMAIN call.property_list :
          call.property_list[i] \in WellFormedProps)
    => /\ ret.again.status = "returned"
       /\ DOMAIN ret.again.attrs = DOMAIN ret.first.attrs
       /\ \A k \in DOMAIN ret.first.attrs :
            /\ ret.again.attrs[k].value_map = ret.first.attrs[k].value_map
            /\ ret.again.attrs[k].value_range = ret.first.attrs[k].value_range

\* C14: when the schema is no mapping, or a record of the property list is no
\* mapping or has a propertyKey that is None or unhashable, the filters do
\* not raise and return the empty view.
C14_MalformedGivesEmptyView ==
    LET S == call.base_parser
        P == call.property_list
    IN  (/\ call.op \in { "create_filtered_parser", "create_humidity_parser" }
         /\ ret.n >= 1
         /\ \/ ~S.is_dict
            \/ \E i \in DOMAIN P :
                 \/ P[i].kind # "dict"
                 \/ P[i].has_key /\ ~Hashable(P[i].key))
        => ret.first = EmptyParser

\* C23: for a schema that is a mapping and a well-formed property list, an
\* attribute with a value map whose key the list names once is filtered as
\* follows: with an allowed-value string in the record the view has the value
\* map restricted to the tokens of the string and the string as value range;
\* without one the call still returns and the value map is the schema's.
C23_ValueMapRestricted ==
    LET S == call.base_parser
        P == call.property_list
    IN  (/\ call.op \in { "create_filtered_parser", "create_humidity_parser" }
         /\ ret.n >= 1
         /\ S.is_dict
         /\ \A i \in DOMAIN P : P[i] \in WellFormedProps)
        => \A i \in DOMAIN P :
             (/\ P[i].key \in DOMAIN S.attrs
              /\ S.attrs[P[i].key].value_map # {}
              /\ \A j \in DOMAIN P : P[j].key = P[i].key => j = i)
             => /\ ret.first.status = "returned"
                /\ Truthy(P[i].pvl) =>
                     /\ ret.first.attrs[P[i].key].value_map =
                          { v \in S.attrs[P[i].key].value_map :
                              \E n \in DOMAIN P[i].pvl.toks : P[i].pvl.toks[n] = v }
                     /\ ret.first.attrs[P[i].key].value_range = P[i].pvl
                /\ ~P[i].pvl.has =>
                     ret.first.attrs[P[i].key].value_map = S.attrs[P[i].key].value_map

\* C24: after a factory call the attributes of the base parser are what they
\* were before it, and the returned parser holds none of the attribute
\* objects of the base parser.
C24_SchemaUnchanged ==
    (/\ call.op \in { "create_filtered_parser", "create_humidity_parser" }
     /\ ret.n >= 1
     /\ call.base_parser.is_dict)
    => /\ ret.after = call.base_parser.attrs
       /\ ret.shared = {}

\* C27: in a returned view every attribute of type Enum has a value map that
\* is not empty.
C27_EnumValueMapNotEmpty ==
    (/\ call.op \in { "create_filtered_parser", "create_humidity_parser" }
     /\ ret.n >= 1
     /\ ret.first.status = "returned")
    => \A k \in DOMAIN ret.first.attrs :
         ret.first.attrs[k].attr_type = "Enum" => ret.first.attrs[k].value_map # {}

\* C28: two runs that filter the same value map against the same allowed
\* values and look the same target up return the same key, the key of the
\* earliest item of the schema's value map that survives the filter and
\* normalizes to the target.
C28_LookupOnFilteredViewDeterministic ==
    LET Survives(item) == item.k \in Split(call.pvl)
        in_order == SelectSeq(call.value_map, Survives)
        expected == IF call.op = "lookup_mode"
                      THEN find_device_value_for_ha_mode(in_order, call.target)
                      ELSE find_device_value_for_ha_fan_mode(in_order, call.target)
    IN  (call.op \in { "lookup_mode", "lookup_fan_mode" } /\ ret.pc = "done")
        => /\ ret.keys[1] = ret.keys[2]
           /\ ret.keys[1] = expected

\* ===================================================================
\* Properties of discovery
\* ===================================================================

\* C15: when the device list was received, a device whose lookup, requests
\* or filtering fail is the only one skipped: discovery returns, and every
\* device of the list that is processed without failure is in the result.
C15_FailureSkipsOnlyThatDevice ==
    (/\ call.op = "get_devices_with_parsers"
     /\ call.response = "ok"
     /\ ret.pc \in { "returned", "raised" })
    => \A j \in DOMAIN call.device_list :
         ProcessDevice(call.device_list[j]).status = "returned"
           => /\ ret.pc = "returned"
              /\ j \in DOMAIN ret.devices_with_parsers

\* C25: a returned device of the dual-zone class has neither of the two
\* attributes of zone 2 in its view when its status has f_zone2_select "0",
\* and both of them otherwise.
C25_Zone2Removed ==
    (call.op = "get_devices_with_parsers" /\ ret.pc = "returned")
    => \A id \in DOMAIN ret.devices_with_parsers :
         LET device == call.device_list[id]
             view   == DOMAIN ret.devices_with_parsers[id]
             zone2  == { "f_zone2water_temp2", "t_zone2water_settemp2" }
         IN  get_device_parser(device.device_type_code, device.device_feature_code)
               = "SplitWater035699Parser"
             => /\ DOMAIN ret._parsers[id] = view
                /\ IF device.f_zone2_select = "0"
                     THEN view \cap zone2 = {}
                     ELSE zone2 \subseteq view

\* C26: a returned device of the class that is not filtered has a view with
\* exactly the attributes of the class.
C26_UnfilteredViewIsSchema ==
    (call.op = "get_devices_with_parsers" /\ ret.pc = "returned")
    => \A id \in DOMAIN ret.devices_with_parsers :
         LET device == call.device_list[id]
         IN  get_device_parser(device.device_type_code, device.device_feature_code)
               = "Split006299Parser"
             => /\ ret.devices_with_parsers[id] = ParserAttributes("Split006299Parser")
                /\ ret._parsers[id] = ParserAttributes("Split006299Parser")

\* C16: after discovery returned, the view of every returned device for
\* which the power check is false has no f_power_consumption, in the result
\* and in the parsers the client keeps.
C16_NoPowerConsumptionWithoutSupport ==
    (call.op = "get_devices_with_parsers" /\ ret.pc = "returned")
    => \A id \in DOMAIN ret.devices_with_parsers :
         LET device == call.device_list[id]
             static_data == IF id \in DOMAIN ret._static_data
                              THEN ret._static_data[id] ELSE NoStaticData
         IN  ~_check_power_support(device.device_type_code, device.device_feature_code,
                                   device.property_list, static_data)
               => /\ "f_power_consumption" \notin DOMAIN ret.devices_with_parsers[id]
                  /\ "f_power_consumption" \notin DOMAIN ret._parsers[id]

\* Discovery returned a device of the given pair for which the check is false.
C16_Witness ==
    /\ call.op = "get_devices_with_parsers"
    /\ ret.pc = "returned"
    /\ \E id \in DOMAIN ret.devices_with_parsers :
         LET device == call.device_list[id]
         IN  /\ device.device_type_code = "009"
             /\ device.device_feature_code = "100"
             /\ ~_check_power_support("009", "100", device.property_list, NoStaticData)
             /\ "f_power_consumption" \in DOMAIN
                  create_filtered_parser([is_dict |-> TRUE,
                                          attrs |-> ParserAttributes("BaseBeanParser")],
                                         device.property_list).attrs

\* The same for the paths that do not filter: static data without the flag.
C16_WitnessUnfiltered ==
    /\ call.op = "get_devices_with_parsers"
    /\ ret.pc = "returned"
    /\ \E id, id2 \in DOMAIN ret.devices_with_parsers :
         /\ call.device_list[id].device_type_code = "006"
         /\ ret._static_data[id].Power_function # "1"
         /\ call.device_list[id2].device_type_code = "035"
         /\ "f_power_consumption" \in DOMAIN ParserAttributes("SplitWater035699Parser")
         /\ "f_power_consumption" \notin DOMAIN ret.devices_with_parsers[id2]

\* The same for the humidity filter.
C16_WitnessHumidity ==
    /\ call.op = "get_devices_with_parsers"
    /\ ret.pc = "returned"
    /\ \E id \in DOMAIN ret.devices_with_parsers :
         /\ call.device_list[id].device_type_code = "007"
         /\ call.device_list[id].property_list # << >>
         /\ "f_power_display" \notin PowerPropertyKeys(call.device_list[id].property_list)

====
